---- MODULE Spec2Model ----
(***************************************************************************)
(* Batch image compressor (MultiImageCompressor, src/unnamed/part_000).    *)
(*                                                                         *)
(* The component keeps an array of per-image records in React state and    *)
(* mutates it from event handlers (file drop, quality slider, remove,      *)
(* reset) and from asynchronous callbacks (FileReader, Image, setTimeout). *)
(* Every callback that has been registered and has not run yet is a task   *)
(* in the bag `pending`; the scheduler may run any of them next.           *)
(* A handler reads `images` and `quality` of the render it was created in; *)
(* React renders again after every event and before the next one is        *)
(* delivered, so a handler that starts sees the committed state.  What a   *)
(* callback captured when it was registered (the id, the source, the       *)
(* quality) travels with its task.                                         *)
(*                                                                         *)
(* Sizes in KB carry two decimals in the source (toFixed(2)); the model    *)
(* keeps them as integers in hundredths of a KB.  Values printed with one  *)
(* decimal (toFixed(1)) are integers in tenths of a KB or of a percent.    *)
(* Decimal arithmetic is exact here; the binary rounding of IEEE doubles   *)
(* is not modelled.                                                        *)
(***************************************************************************)
EXTENDS Integers, Sequences, FiniteSets, Bags, TLC

VARIABLES images, quality, isProcessingAll, pending, nextId, lastOp, page

vars == <<images, quality, isProcessingAll, pending, nextId, lastOp, page>>

(***************************************************************************)
(* Bounds of the model.                                                    *)
(***************************************************************************)
\* number of ids crypto.randomUUID() hands out in one run
MaxIds == 2
\* number of files in one FileList
MaxFiles == 2
\* number of callbacks registered and not yet run
MaxPending == 2

(***************************************************************************)
(* Program constants.                                                      *)
(***************************************************************************)
MAX_TOTAL_SIZE_MB == 50

InitialQuality == 70

\* values the quality slider is moved to
Qualities == {30, 70}

(***************************************************************************)
(* Number formatting.                                                      *)
(***************************************************************************)
\* Number((bytes / 1024).toFixed(2)), in hundredths of a KB
ToFixed2KB(bytes) ==
    LET k == bytes \div 1024
        r == bytes % 1024
    IN  k * 100 + (r * 100 + 512) \div 1024

\* x.toFixed(1) of a non-negative x given in hundredths: the result in tenths
ToFixed1(x) == (x + 5) \div 10

(***************************************************************************)
(* Files and data URLs.                                                    *)
(*                                                                         *)
(* A File is [name, type, size, picture]: `name` is the sequence of the    *)
(* characters of the name, and `picture` stands for what the               *)
(* bytes decode to: "photo" and "icon" are pictures, "corrupt" is not an   *)
(* image, "zerodim" is an image of width or height 0.                      *)
(* A data URL is [comma, head, b64, pad, valid, more, picture, q]: `comma`  *)
(* tells whether the string has a ','; b64 and pad are the length of the   *)
(* text between the first ',' and the next one (or the end) and the number *)
(* of '=' that end it; `valid` tells whether atob accepts that text;       *)
(* `more` tells whether a second ',' follows it; q is the JPEG quality of  *)
(* an encoded result (0 for an original).                                  *)
(***************************************************************************)
MB == 1024 * 1024

FileChoices ==
    { [name |-> <<"a", ".", "p", "n", "g">>, type |-> "image/png",
       size |-> 25 * MB, picture |-> "photo"],
      [name |-> <<"a", ".", "j", "p", "g">>, type |-> "image/jpeg",
       size |-> 30 * MB, picture |-> "corrupt"],
      [name |-> <<"b", ".", "p", "n", "g">>, type |-> "image/png",
       size |-> 1075, picture |-> "icon"],
      [name |-> <<"c", ".", "s", "v", "g">>, type |-> "image/svg+xml",
       size |-> 300, picture |-> "zerodim"],
      [name |-> <<"n", ".", "t", "x", "t">>, type |-> "text/plain",
       size |-> 30 * MB, picture |-> "none"] }

FileLists == UNION { [1..n -> FileChoices] : n \in 1..MaxFiles }

\* file.type.startsWith('image/')
IsImageType(file) == file.type \in {"image/png", "image/jpeg", "image/svg+xml"}

EmptyString ==
    [comma |-> FALSE, head |-> "", b64 |-> 0, pad |-> 0, valid |-> TRUE, more |-> FALSE,
     picture |-> "none", q |-> 0]

Null == [null |-> TRUE]

Base64Len(n) == 4 * ((n + 2) \div 3)

Base64Pad(n) == (3 - (n % 3)) % 3

\* reader.readAsDataURL(file): event.target.result
ReadAsDataURL(file) ==
    [comma |-> TRUE, head |-> file.type, b64 |-> Base64Len(file.size),
     pad |-> Base64Pad(file.size), valid |-> TRUE, more |-> FALSE,
     picture |-> file.picture, q |-> 0]

\* the JPEG codec of the canvas: deterministic in the picture and the quality
JpegBytes(picture, q) ==
    CASE picture = "photo" -> 2000 + 5150 * q
      [] picture = "icon"  -> 1500 + 3 * q
      [] OTHER             -> 0

\* canvas.toDataURL("image/jpeg", qualityPercent / 100); a canvas of width or
\* height 0 (lines 74-75) gives the string "data:,"
ToDataURL(picture, q) ==
    LET n == JpegBytes(picture, q)
    IN  IF picture = "zerodim"
        THEN [comma |-> TRUE, head |-> "", b64 |-> 0, pad |-> 0, valid |-> TRUE,
              more |-> FALSE, picture |-> picture, q |-> q]
        ELSE [comma |-> TRUE, head |-> "image/jpeg", b64 |-> Base64Len(n),
              pad |-> Base64Pad(n), valid |-> TRUE, more |-> FALSE,
              picture |-> picture, q |-> q]

\* whether new Image() with this src fires onload (TRUE) or onerror (FALSE)
Decodes(src) == src.picture \in {"photo", "icon", "zerodim"}

\* the number of bytes atob gives for a base64 text of length b64 that ends
\* in pad '='
DecodedLength(b64, pad) == (b64 \div 4) * 3 - pad

\* lines 28-37: split(',')[1] is the text between the first ',' and the next;
\* undefined or "" returns 0 (line 31), a throw of atob returns 0 (line 35)
getFileSizeFromDataURL(dataurl) ==
    IF ~dataurl.comma \/ dataurl.b64 = 0 THEN 0
    ELSE IF ~dataurl.valid THEN 0
    ELSE ToFixed2KB(DecodedLength(dataurl.b64, dataurl.pad))

(***************************************************************************)
(* Operations on the images array.                                         *)
(***************************************************************************)
\* images.reduce((sum, img) => sum + img.originalSize, 0)
SumOriginal(imgs) ==
    LET S[i \in 0..Len(imgs)] == IF i = 0 THEN 0 ELSE S[i - 1] + imgs[i].originalSize
    IN  S[Len(imgs)]

\* images.reduce((sum, img) => sum + img.compressedSize, 0)
SumCompressed(imgs) ==
    LET S[i \in 0..Len(imgs)] == IF i = 0 THEN 0 ELSE S[i - 1] + imgs[i].compressedSize
    IN  S[Len(imgs)]

Ids(imgs) == { imgs[i].id : i \in 1..Len(imgs) }

\* line 60
SetCompressingStart(imgs, imgId) ==
    [i \in 1..Len(imgs) |->
        IF imgs[i].id = imgId
        THEN [imgs[i] EXCEPT !.isCompressing = TRUE, !.error = Null]
        ELSE imgs[i]]

\* faulty variant: the error path also drops the compressed result
SetCanvasErrorAndClear(imgs, imgId) ==
    [i \in 1..Len(imgs) |->
        IF imgs[i].id = imgId
        THEN [imgs[i] EXCEPT !.isCompressing = FALSE, !.compressedSrc = Null,
                             !.compressedSize = 0,
                             !.error = [null |-> FALSE, msg |-> "Canvas error."]]
        ELSE imgs[i]]

\* line 70
SetCanvasError(imgs, imgId) ==
    [i \in 1..Len(imgs) |->
        IF imgs[i].id = imgId
        THEN [imgs[i] EXCEPT !.isCompressing = FALSE, !.error = [null |-> FALSE, msg |-> "Canvas error."]]
        ELSE imgs[i]]

NoFile == [name |-> <<>>, type |-> "", size |-> 0, picture |-> "none"]

\* faulty variant: a completion for an id that is not in the array adds a record (upsert)
SetCompressedUpsert(imgs, imgId, compressedDataURL, fileSize) ==
    IF \E i \in 1..Len(imgs) : imgs[i].id = imgId
    THEN [i \in 1..Len(imgs) |->
            IF imgs[i].id = imgId
            THEN [imgs[i] EXCEPT !.compressedSrc = compressedDataURL,
                                 !.compressedSize = fileSize,
                                 !.isCompressing = FALSE]
            ELSE imgs[i]]
    ELSE Append(imgs, [id |-> imgId, file |-> NoFile, originalSize |-> 0,
                       originalSrc |-> EmptyString, compressedSrc |-> compressedDataURL,
                       compressedSize |-> fileSize, isCompressing |-> FALSE, error |-> Null])

\* faulty variant: a completion is dropped when the record is not compressing
\* (the first of two overlapping completions wins)
SetCompressedIfCompressing(imgs, imgId, compressedDataURL, fileSize) ==
    [i \in 1..Len(imgs) |->
        IF imgs[i].id = imgId /\ imgs[i].isCompressing
        THEN [imgs[i] EXCEPT !.compressedSrc = compressedDataURL,
                             !.compressedSize = fileSize,
                             !.isCompressing = FALSE]
        ELSE imgs[i]]

\* faulty variant: a completion adds its size to the size the record has
SetCompressedAdding(imgs, imgId, compressedDataURL, fileSize) ==
    [i \in 1..Len(imgs) |->
        IF imgs[i].id = imgId
        THEN [imgs[i] EXCEPT !.compressedSrc = compressedDataURL,
                             !.compressedSize = @ + fileSize,
                             !.isCompressing = FALSE]
        ELSE imgs[i]]

\* lines 81-88
SetCompressed(imgs, imgId, compressedDataURL, fileSize) ==
    [i \in 1..Len(imgs) |->
        IF imgs[i].id = imgId
        THEN [imgs[i] EXCEPT !.compressedSrc = compressedDataURL,
                             !.compressedSize = fileSize,
                             !.isCompressing = FALSE]
        ELSE imgs[i]]

\* faulty variant: a failed decode stops the records that come after it too
SetLoadFailedAndLater(imgs, imgId) ==
    [i \in 1..Len(imgs) |->
        IF imgs[i].id >= imgId
        THEN [imgs[i] EXCEPT !.isCompressing = FALSE, !.error = [null |-> FALSE, msg |-> "Image load failed."]]
        ELSE imgs[i]]

\* line 92
SetLoadFailed(imgs, imgId) ==
    [i \in 1..Len(imgs) |->
        IF imgs[i].id = imgId
        THEN [imgs[i] EXCEPT !.isCompressing = FALSE, !.error = [null |-> FALSE, msg |-> "Image load failed."]]
        ELSE imgs[i]]

\* line 137
SetLoadStart(imgs, id) ==
    [i \in 1..Len(imgs) |->
        IF imgs[i].id = id THEN [imgs[i] EXCEPT !.isCompressing = TRUE] ELSE imgs[i]]

\* line 141
SetOriginalSrc(imgs, id, src) ==
    [i \in 1..Len(imgs) |->
        IF imgs[i].id = id
        THEN [imgs[i] EXCEPT !.originalSrc = src, !.isCompressing = TRUE]
        ELSE imgs[i]]

\* faulty variant: a read error for an id that is not in the array adds a record (upsert)
SetReadErrorUpsert(imgs, id) ==
    IF \E i \in 1..Len(imgs) : imgs[i].id = id
    THEN [i \in 1..Len(imgs) |->
            IF imgs[i].id = id
            THEN [imgs[i] EXCEPT !.isCompressing = FALSE,
                                 !.error = [null |-> FALSE, msg |-> "Read error."]]
            ELSE imgs[i]]
    ELSE Append(imgs, [id |-> id, file |-> NoFile, originalSize |-> 0,
                       originalSrc |-> EmptyString, compressedSrc |-> Null,
                       compressedSize |-> 0, isCompressing |-> FALSE,
                       error |-> [null |-> FALSE, msg |-> "Read error."]])

\* line 145
SetReadError(imgs, id) ==
    [i \in 1..Len(imgs) |->
        IF imgs[i].id = id
        THEN [imgs[i] EXCEPT !.isCompressing = FALSE, !.error = [null |-> FALSE, msg |-> "Read error."]]
        ELSE imgs[i]]

\* faulty variant: the filter drops the record and every record added after it
RemoveByIdAndLater(imgs, id) == SelectSeq(imgs, LAMBDA img : img.id < id)

\* line 194
RemoveById(imgs, id) == SelectSeq(imgs, LAMBDA img : img.id # id)

\* line 523: setImages([])
ClearAll(imgs) == <<>>

(***************************************************************************)
(* globalStats (lines 201-217).  The totals, saved and ratio are strings   *)
(* with one decimal in the source: here integers in tenths.                *)
(***************************************************************************)
\* a JavaScript string is truthy unless it is empty
Truthy(str) == str # Null /\ str # EmptyString

\* faulty variant: the isCompressing flag is not looked at
IsFinishedIgnoringFlag(img) == Truthy(img.compressedSrc) \/ Truthy(img.error)

\* line 208: (img.compressedSrc || img.error) && !img.isCompressing
IsFinished(img) == (Truthy(img.compressedSrc) \/ Truthy(img.error)) /\ ~img.isCompressing

\* faulty variant: no clamp at zero
SavedFieldUnclamped(saved) == ToFixed1(saved)

\* line 213: saved > 0 ? saved.toFixed(1) : '0.0'
SavedField(saved) == IF saved > 0 THEN ToFixed1(saved) ELSE 0

\* (saved / originalTotal) * 100, rounded to one decimal: in tenths of a percent
\* (long division, one decimal digit at a time, then rounding on the remainder)
RatioTenths(saved, originalTotal) ==
    LET d1 == (10 * (saved % originalTotal)) \div originalTotal
        r1 == (10 * (saved % originalTotal)) % originalTotal
        d2 == (10 * r1) \div originalTotal
        r2 == (10 * r1) % originalTotal
        d3 == (10 * r2) \div originalTotal
        r3 == (10 * r2) % originalTotal
    IN  1000 * (saved \div originalTotal) + 100 * d1 + 10 * d2 + d3
          + (IF 2 * r3 >= originalTotal THEN 1 ELSE 0)

\* lines 205 and 214: ratio > 0 ? ratio.toFixed(1) : '0.0'
RatioField(saved, originalTotal) ==
    IF originalTotal > 0 /\ saved > 0 THEN RatioTenths(saved, originalTotal) ELSE 0

globalStatsOf(imgs) ==
    LET originalTotal == SumOriginal(imgs)
        compressedTotal == SumCompressed(imgs)
        saved == originalTotal - compressedTotal
        allCompressed == \A i \in 1..Len(imgs) : IsFinished(imgs[i])
    IN  [originalTotal |-> ToFixed1(originalTotal),
         compressedTotal |-> ToFixed1(compressedTotal),
         saved |-> SavedField(saved),
         ratio |-> RatioField(saved, originalTotal),
         allCompressed |-> allCompressed /\ Len(imgs) > 0]

globalStats == globalStatsOf(images)

(***************************************************************************)
(* Callbacks registered and not yet run.                                   *)
(*   reader/start    FileReader created, onloadstart not yet delivered     *)
(*   reader/loading  onloadstart delivered, onload or onerror to come      *)
(*   image           new Image() of compressImage, onload/onerror to come  *)
(*   timeout         setTimeout(() => compressImage(...), 50)              *)
(* The timers setTimeout(() => setIsProcessingAll(false), 500) are not in  *)
(* the bag: whenever isProcessingAll is true the timer of the latest       *)
(* quality change is still to fire, and a timer that fires while it is     *)
(* false changes nothing.                                                  *)
(***************************************************************************)
Task(kind, phase, id, src, q) ==
    [kind |-> kind, phase |-> phase, id |-> id, src |-> src, q |-> q]

Tasks == BagToSet(pending)

\* The handler or callback that ran last: its name, the id it was about and
\* whether a record with that id was in the batch when it ran, and whether
\* that record had isCompressing set; for
\* handleFileProcessing also the FileList, the outcome per file, the total of
\* the batch before the call and the first id the call could hand out; for
\* handleBatchDownload the entries of the archive it built.
Op(op, id) ==
    [op |-> op, id |-> id, hit |-> id \in Ids(images),
     busy |-> \E i \in 1..Len(images) : images[i].id = id /\ images[i].isCompressing,
     files |-> <<>>, outcomes |-> <<>>, base |-> 0, firstId |-> 0, zip |-> <<>>]

(***************************************************************************)
(* handleFileProcessing: the loop over the FileList (lines 103-148).       *)
(* `outcomes` records, per file the loop looked at, "accepted" (pushed on  *)
(* newImages) or the reason of its alert; files after the break have no    *)
(* entry.                                                                  *)
(***************************************************************************)
Budget == MAX_TOTAL_SIZE_MB * 1024 * 100

\* faulty variant: the running total forgets the records already in the batch
StartTotalZero(imgs) == 0

\* line 104: let totalSize = images.reduce(...)
StartTotal(imgs) == SumOriginal(imgs)

\* line 116: if (totalSize > MAX_TOTAL_SIZE_MB * 1024)
OverBudget(totalSize, sizeInKB) == totalSize > Budget

\* faulty variant: continue instead of break
ContinueOnBudget == FALSE

\* line 118: break
BreakOnBudget == TRUE

\* faulty variant: every record gets the same id
NewImageSameId(id, file, sizeInKB) ==
    [id |-> 1, file |-> file, originalSize |-> sizeInKB, originalSrc |-> EmptyString,
     compressedSrc |-> Null, compressedSize |-> 0, isCompressing |-> FALSE, error |-> Null]

\* lines 121-132
NewImage(id, file, sizeInKB) ==
    [id |-> id, file |-> file, originalSize |-> sizeInKB, originalSrc |-> EmptyString,
     compressedSrc |-> Null, compressedSize |-> 0, isCompressing |-> FALSE, error |-> Null]

FileLoop(fileList, imgs, firstId) ==
    LET R[i \in 0..Len(fileList)] ==
            IF i = 0
            THEN [newImages |-> <<>>, totalSize |-> StartTotal(imgs),
                  outcomes |-> <<>>, broke |-> FALSE]
            ELSE LET p == R[i - 1]
                     file == fileList[i]
                     sizeInKB == ToFixed2KB(file.size)
                     total == p.totalSize + sizeInKB
                 IN  IF p.broke THEN p
                     ELSE IF ~IsImageType(file)
                     THEN [p EXCEPT !.totalSize = total,
                                    !.outcomes = Append(@, "UnsupportedFileType")]
                     ELSE IF OverBudget(total, sizeInKB)
                     THEN [p EXCEPT !.totalSize = total,
                                    !.outcomes = Append(@, "BatchBudgetExceeded"),
                                    !.broke = BreakOnBudget]
                     ELSE [p EXCEPT !.totalSize = total,
                                    !.outcomes = Append(@, "accepted"),
                                    !.newImages = Append(@, NewImage(firstId + Len(@), file, sizeInKB))]
    IN  R[Len(fileList)]

ReaderTasks(newImages, q) ==
    LET B[i \in 0..Len(newImages)] ==
            IF i = 0 THEN EmptyBag
            ELSE B[i - 1] (+) SetToBag({Task("reader", "start", newImages[i].id,
                                             ReadAsDataURL(newImages[i].file), q)})
    IN  B[Len(newImages)]

handleFileProcessing(fileList) ==
    LET r == FileLoop(fileList, images, nextId)
        n == Len(r.newImages)
    IN  /\ nextId <= MaxIds
        /\ nextId + n <= MaxIds + 1
        /\ BagCardinality(pending) + n <= MaxPending
        /\ images' = images \o r.newImages
        /\ pending' = pending (+) ReaderTasks(r.newImages, quality)
        /\ nextId' = nextId + n
        /\ lastOp' = [op |-> "ingest", id |-> 0, hit |-> FALSE, busy |-> FALSE, files |-> fileList,
                      outcomes |-> r.outcomes, base |-> SumOriginal(images),
                      firstId |-> nextId, zip |-> <<>>]
        /\ UNCHANGED <<quality, isProcessingAll, page>>

(***************************************************************************)
(* FileReader callbacks (lines 136-146).                                   *)
(***************************************************************************)
ReaderLoadStart(t) ==
    /\ t.kind = "reader" /\ t.phase = "start"
    /\ images' = SetLoadStart(images, t.id)
    /\ pending' = (pending (-) SetToBag({t})) (+) SetToBag({[t EXCEPT !.phase = "loading"]})
    /\ lastOp' = Op("reader.onloadstart", t.id)
    /\ UNCHANGED <<quality, isProcessingAll, nextId, page>>

\* onload: store the source, then compressImage(id, src, quality) with the quality
\* of the render in which the file was dropped
ReaderLoad(t) ==
    /\ t.kind = "reader" /\ t.phase = "loading"
    /\ images' = SetCompressingStart(SetOriginalSrc(images, t.id, t.src), t.id)
    /\ pending' = (pending (-) SetToBag({t})) (+) SetToBag({Task("image", "", t.id, t.src, t.q)})
    /\ lastOp' = Op("reader.onload", t.id)
    /\ UNCHANGED <<quality, isProcessingAll, nextId, page>>

ReaderError(t) ==
    /\ t.kind = "reader" /\ t.phase = "loading"
    /\ images' = SetReadError(images, t.id)
    /\ pending' = pending (-) SetToBag({t})
    /\ lastOp' = Op("reader.onerror", t.id)
    /\ UNCHANGED <<quality, isProcessingAll, nextId, page>>

(***************************************************************************)
(* compressImage callbacks (lines 65-93).                                  *)
(***************************************************************************)
\* faulty variant: the encode reads the quality of the state it completes in
ImageLoadAtCurrentQuality(t) ==
    /\ t.kind = "image" /\ Decodes(t.src)
    /\ LET compressedDataURL == ToDataURL(t.src.picture, quality)
           fileSize == getFileSizeFromDataURL(compressedDataURL)
       IN  images' = SetCompressed(images, t.id, compressedDataURL, fileSize)
    /\ pending' = pending (-) SetToBag({t})
    /\ lastOp' = Op("img.onload", t.id)
    /\ UNCHANGED <<quality, isProcessingAll, nextId, page>>

ImageLoad(t) ==
    /\ t.kind = "image" /\ Decodes(t.src)
    /\ LET compressedDataURL == ToDataURL(t.src.picture, t.q)
           fileSize == getFileSizeFromDataURL(compressedDataURL)
       IN  images' = SetCompressed(images, t.id, compressedDataURL, fileSize)
    /\ pending' = pending (-) SetToBag({t})
    /\ lastOp' = Op("img.onload", t.id)
    /\ UNCHANGED <<quality, isProcessingAll, nextId, page>>

\* canvas.getContext("2d") gave null
ImageLoadNoContext(t) ==
    /\ t.kind = "image" /\ Decodes(t.src)
    /\ images' = SetCanvasError(images, t.id)
    /\ pending' = pending (-) SetToBag({t})
    /\ lastOp' = Op("img.onload/noctx", t.id)
    /\ UNCHANGED <<quality, isProcessingAll, nextId, page>>

\* faulty variant: a failed decode records the error and leaves isCompressing set
ImageErrorStillCompressing(t) ==
    /\ t.kind = "image" /\ ~Decodes(t.src)
    /\ images' = [i \in 1..Len(images) |->
                     IF images[i].id = t.id
                     THEN [images[i] EXCEPT !.error = [null |-> FALSE, msg |-> "Image load failed."]]
                     ELSE images[i]]
    /\ pending' = pending (-) SetToBag({t})
    /\ lastOp' = Op("img.onerror", t.id)
    /\ UNCHANGED <<quality, isProcessingAll, nextId, page>>

ImageError(t) ==
    /\ t.kind = "image" /\ ~Decodes(t.src)
    /\ images' = SetLoadFailed(images, t.id)
    /\ pending' = pending (-) SetToBag({t})
    /\ lastOp' = Op("img.onerror", t.id)
    /\ UNCHANGED <<quality, isProcessingAll, nextId, page>>

(***************************************************************************)
(* handleQualityChange (lines 169-191) and its timers.                     *)
(***************************************************************************)
\* faulty variant: the deferred calls skip the last record of the batch
DeferredTasksButLast(imgs, newQuality) ==
    LET B[i \in 0..Len(imgs)] ==
            IF i = 0 THEN EmptyBag
            ELSE IF i > 1 /\ i < Len(imgs) /\ Truthy(imgs[i].originalSrc)
            THEN B[i - 1] (+) SetToBag({Task("timeout", "", imgs[i].id, imgs[i].originalSrc, newQuality)})
            ELSE B[i - 1]
    IN  B[Len(imgs)]

\* faulty variant: the deferred calls encode at the quality of the render, not
\* at the new one
DeferredTasksOldQuality(imgs, newQuality) ==
    LET B[i \in 0..Len(imgs)] ==
            IF i = 0 THEN EmptyBag
            ELSE IF i > 1 /\ Truthy(imgs[i].originalSrc)
            THEN B[i - 1] (+) SetToBag({Task("timeout", "", imgs[i].id, imgs[i].originalSrc, quality)})
            ELSE B[i - 1]
    IN  B[Len(imgs)]

\* lines 181-185: images.slice(1).forEach(... setTimeout(..., 50))
DeferredTasks(imgs, newQuality) ==
    LET B[i \in 0..Len(imgs)] ==
            IF i = 0 THEN EmptyBag
            ELSE IF i > 1 /\ Truthy(imgs[i].originalSrc)
            THEN B[i - 1] (+) SetToBag({Task("timeout", "", imgs[i].id, imgs[i].originalSrc, newQuality)})
            ELSE B[i - 1]
    IN  B[Len(imgs)]

handleQualityChange(newQuality) ==
    /\ quality' = newQuality
    /\ IF Len(images) > 0
       THEN LET previewImage == images[1]
                now == IF Truthy(previewImage.originalSrc)
                       THEN SetToBag({Task("image", "", previewImage.id,
                                           previewImage.originalSrc, newQuality)})
                       ELSE EmptyBag
                issued == now (+) DeferredTasks(images, newQuality)
            IN  /\ BagCardinality(pending) + BagCardinality(issued) <= MaxPending
                /\ isProcessingAll' = TRUE
                /\ images' = IF Truthy(previewImage.originalSrc)
                             THEN SetCompressingStart(images, previewImage.id)
                             ELSE images
                /\ pending' = pending (+) issued
       ELSE UNCHANGED <<images, isProcessingAll, pending>>
    /\ lastOp' = Op("setQuality", 0)
    /\ UNCHANGED <<nextId, page>>

\* setTimeout(() => compressImage(img.id, img.originalSrc, newQuality), 50)
TimeoutFire(t) ==
    /\ t.kind = "timeout"
    /\ images' = SetCompressingStart(images, t.id)
    /\ pending' = (pending (-) SetToBag({t})) (+) SetToBag({Task("image", "", t.id, t.src, t.q)})
    /\ lastOp' = Op("timeout", t.id)
    /\ UNCHANGED <<quality, isProcessingAll, nextId, page>>

\* setTimeout(() => setIsProcessingAll(false), 500)
ProcAllTimeout ==
    /\ isProcessingAll
    /\ isProcessingAll' = FALSE
    /\ lastOp' = Op("procAllTimeout", 0)
    /\ UNCHANGED <<images, quality, pending, nextId, page>>

(***************************************************************************)
(* Remove and reset (lines 193-195, 523).                                  *)
(***************************************************************************)
handleRemoveImage(id) ==
    /\ images' = RemoveById(images, id)
    /\ lastOp' = Op("remove", id)
    /\ UNCHANGED <<quality, isProcessingAll, pending, nextId, page>>

\* onClick={() => setImages([])}, rendered when images.length > 0
Reset ==
    /\ Len(images) > 0
    /\ images' = ClearAll(images)
    /\ lastOp' = Op("reset", 0)
    /\ UNCHANGED <<quality, isProcessingAll, pending, nextId, page>>

(***************************************************************************)
(* handleBatchDownload (lines 224-257).  A zip is a function from entry    *)
(* names to entry data; zip.file(name, data) on a name the zip already     *)
(* has replaces the data of that entry.                                    *)
(***************************************************************************)
\* the decimal digits of n, as characters
Digits(n) ==
    LET digit == <<"0", "1", "2", "3", "4", "5", "6", "7", "8", "9">>
        D[k \in 0..n] ==
            IF k < 10 THEN <<digit[k + 1]>>
            ELSE Append(D[k \div 10], digit[(k % 10) + 1])
    IN  D[n]

\* name.replace(/\.[^/.]+$/, ""): the match starts at a '.' that is followed,
\* up to the end, by one or more characters none of which is '/' or '.'
StripExtension(name) ==
    LET starts == { p \in 1..Len(name) :
                      /\ name[p] = "."
                      /\ p < Len(name)
                      /\ \A k \in (p + 1)..Len(name) : name[k] \notin {"/", "."} }
    IN  IF starts = {} THEN name
        ELSE SubSeq(name, 1, (CHOOSE p \in starts : TRUE) - 1)

\* line 241: `${originalName}_Q${quality}.jpg`
EntryName(name, q) ==
    StripExtension(name) \o <<"_", "Q">> \o Digits(q) \o <<".", "j", "p", "g">>

\* line 239: compressedSrc.split(',')[1], the base64 text of the entry
EntryData(src) == [b64 |-> src.b64, pad |-> src.pad, picture |-> src.picture, q |-> src.q]

\* lines 237-244
ZipOf(imgs, q) ==
    LET Z[i \in 0..Len(imgs)] ==
            IF i = 0 THEN <<>>
            ELSE IF Truthy(imgs[i].compressedSrc)
            THEN (EntryName(imgs[i].file.name, q) :> EntryData(imgs[i].compressedSrc))
                 @@ Z[i - 1]
            ELSE Z[i - 1]
    IN  Z[Len(imgs)]

handleBatchDownload ==
    /\ globalStats.allCompressed
    /\ lastOp' = [Op("download", 0) EXCEPT !.zip = ZipOf(images, quality)]
    /\ UNCHANGED <<images, quality, isProcessingAll, pending, nextId, page>>

\* line 252: import('jszip') or zip.generateAsync rejected
handleBatchDownloadFailed ==
    /\ globalStats.allCompressed
    /\ lastOp' = Op("download/failed", 0)
    /\ UNCHANGED <<images, quality, isProcessingAll, pending, nextId, page>>

(***************************************************************************)
(* The single-image tool (src/app/page.tsx).  `page` is its state (lines   *)
(* 7-12) with `calls`, the bag of the FileReader and Image callbacks that  *)
(* have been registered and have not run yet.  The batch component does    *)
(* not touch it.                                                           *)
(***************************************************************************)
PageInit ==
    [imageSrc |-> Null, compressedSrc |-> Null, quality |-> InitialQuality,
     originalSize |-> 0, compressedSize |-> 0, isCompressing |-> FALSE,
     calls |-> EmptyBag]

\* compressed.length: "data:image/jpeg;base64," and the base64 text, or "data:,"
StringLength(dataurl) == IF dataurl.b64 = 0 THEN 6 ELSE 23 + dataurl.b64

\* page.tsx line 51: Math.round((compressed.length * 3) / 4 / 1024)
RoundedKB(len) == (3 * len + 2048) \div 4096

batch == <<images, quality, isProcessingAll, pending, nextId, lastOp>>

\* page.tsx lines 15-33
handleFile(file) ==
    /\ BagCardinality(page.calls) < MaxPending
    /\ IF ~IsImageType(file)
       THEN UNCHANGED page
       ELSE page' = [page EXCEPT
                       !.originalSize = ToFixed2KB(file.size),
                       !.isCompressing = TRUE,
                       !.calls = @ (+) SetToBag({Task("reader", "", 0, ReadAsDataURL(file),
                                                      page.quality)})]
    /\ UNCHANGED batch

\* page.tsx lines 28-31: reader.onload
PageReaderLoad(t) ==
    /\ t.kind = "reader"
    /\ page' = [page EXCEPT
                   !.imageSrc = t.src,
                   !.calls = (@ (-) SetToBag({t}))
                             (+) SetToBag({Task("image", "", 0, t.src, t.q)})]
    /\ UNCHANGED batch

\* the read fails: the reader has no onerror (page.tsx lines 27-32)
PageReaderFail(t) ==
    /\ t.kind = "reader"
    /\ page' = [page EXCEPT !.calls = @ (-) SetToBag({t})]
    /\ UNCHANGED batch

\* page.tsx lines 39-54: img.onload
PageImageLoad(t) ==
    /\ t.kind = "image" /\ Decodes(t.src)
    /\ LET compressed == ToDataURL(t.src.picture, t.q)
       IN  page' = [page EXCEPT
                       !.compressedSrc = compressed,
                       !.compressedSize = RoundedKB(StringLength(compressed)),
                       !.isCompressing = FALSE,
                       !.calls = @ (-) SetToBag({t})]
    /\ UNCHANGED batch

\* page.tsx lines 41, 46: getContext("2d")! gave null and ctx.drawImage
\* throws in the callback
PageImageLoadNoContext(t) ==
    /\ t.kind = "image" /\ Decodes(t.src)
    /\ page' = [page EXCEPT !.calls = @ (-) SetToBag({t})]
    /\ UNCHANGED batch

\* page.tsx lines 56-59: img.onerror
PageImageError(t) ==
    /\ t.kind = "image" /\ ~Decodes(t.src)
    /\ page' = [page EXCEPT !.isCompressing = FALSE, !.calls = @ (-) SetToBag({t})]
    /\ UNCHANGED batch

\* page.tsx lines 142-149: onChange of the quality slider
PageQualityChange(newQuality) ==
    /\ BagCardinality(page.calls) < MaxPending
    /\ IF page.imageSrc # Null
       THEN page' = [page EXCEPT
                       !.quality = newQuality,
                       !.isCompressing = TRUE,
                       !.calls = @ (+) SetToBag({Task("image", "", 0, page.imageSrc,
                                                      newQuality)})]
       ELSE page' = [page EXCEPT !.quality = newQuality]
    /\ UNCHANGED batch

(***************************************************************************)
(* The component.                                                          *)
(***************************************************************************)
Init ==
    /\ images = <<>>
    /\ quality = InitialQuality
    /\ isProcessingAll = FALSE
    /\ pending = EmptyBag
    /\ nextId = 1
    /\ lastOp = Op("init", 0)
    /\ page = PageInit

Next ==
    \/ \E fileList \in FileLists : handleFileProcessing(fileList)
    \/ \E t \in Tasks : ReaderLoadStart(t)
    \/ \E t \in Tasks : ReaderLoad(t)
    \/ \E t \in Tasks : ReaderError(t)
    \/ \E t \in Tasks : ImageLoad(t)
    \/ \E t \in Tasks : ImageLoadNoContext(t)
    \/ \E t \in Tasks : ImageError(t)
    \/ \E q \in Qualities : handleQualityChange(q)
    \/ \E t \in Tasks : TimeoutFire(t)
    \/ ProcAllTimeout
    \/ \E id \in 1..(nextId - 1) : handleRemoveImage(id)
    \/ Reset
    \/ handleBatchDownload
    \/ handleBatchDownloadFailed

Spec == Init /\ [][Next]_vars

(***************************************************************************)
(* The same component when the event loop runs every timer that is due:    *)
(* a callback handed to setTimeout (line 183) is called.                   *)
(***************************************************************************)
\* the deferred calls are for images.slice(1): the record with the first id
\* is the first of the batch for as long as it is in it
DeferredIds == 2..MaxIds

TimeoutFireFor(id, q) ==
    \E t \in Tasks : t.id = id /\ t.q = q /\ TimeoutFire(t)

FairSpec ==
    Spec /\ \A id \in DeferredIds, q \in Qualities : WF_vars(TimeoutFireFor(id, q))

(***************************************************************************)
(* The same component when, besides the timers, every file read and every  *)
(* image load ends: a FileReader calls onloadstart and then onload or      *)
(* onerror (lines 136-146), an Image calls onload or onerror (lines 65-93).*)
(***************************************************************************)
ReadStep(id) ==
    \E t \in Tasks : t.id = id /\ (ReaderLoadStart(t) \/ ReaderLoad(t) \/ ReaderError(t))

EncodeStep(id) ==
    \E t \in Tasks : t.id = id /\ (ImageLoad(t) \/ ImageLoadNoContext(t) \/ ImageError(t))

LiveSpec ==
    FairSpec /\ \A id \in 1..MaxIds : WF_vars(ReadStep(id)) /\ WF_vars(EncodeStep(id))

(***************************************************************************)
(* getFileSizeFromDataURL on its own (lines 28-37): the component is       *)
(* empty, and lastOp holds the string handed to the function, then also    *)
(* the number it returned.                                                 *)
(***************************************************************************)
SegmentLengths == {4, 8, 12, 1368, 2048}

Payloads ==
    { [comma |-> TRUE, head |-> "image/jpeg;base64", b64 |-> n, pad |-> p, valid |-> v,
       more |-> m, picture |-> "none", q |-> 0] :
          n \in SegmentLengths, p \in 0..2, v \in BOOLEAN, m \in BOOLEAN }
    \cup { [EmptyString EXCEPT !.comma = TRUE, !.more = m] : m \in BOOLEAN }
    \cup { EmptyString }

InitSize ==
    /\ images = <<>>
    /\ quality = InitialQuality
    /\ isProcessingAll = FALSE
    /\ pending = EmptyBag
    /\ nextId = 1
    /\ page = PageInit
    /\ \E dataurl \in Payloads :
          lastOp = [op |-> "call", dataurl |-> dataurl, size |-> 0]

EstimateSize ==
    /\ lastOp.op = "call"
    /\ lastOp' = [lastOp EXCEPT !.op = "return",
                                !.size = getFileSizeFromDataURL(lastOp.dataurl)]
    /\ UNCHANGED <<images, quality, isProcessingAll, pending, nextId, page>>

NextSize == EstimateSize

SpecSize == InitSize /\ [][NextSize]_vars

(***************************************************************************)
(* The single-image tool on its own: the batch component stays as it       *)
(* starts.                                                                 *)
(***************************************************************************)
NextPage ==
    \/ \E file \in FileChoices : handleFile(file)
    \/ \E t \in BagToSet(page.calls) : PageReaderLoad(t)
    \/ \E t \in BagToSet(page.calls) : PageReaderFail(t)
    \/ \E t \in BagToSet(page.calls) : PageImageLoad(t)
    \/ \E t \in BagToSet(page.calls) : PageImageLoadNoContext(t)
    \/ \E t \in BagToSet(page.calls) : PageImageError(t)
    \/ \E q \in Qualities : PageQualityChange(q)

SpecPage == Init /\ [][NextPage]_vars

(***************************************************************************)
(* Properties.                                                             *)
(***************************************************************************)
Max(a, b) == IF a >= b THEN a ELSE b

\* the status of a record, read off its fields
Status(img) ==
    IF img.isCompressing THEN "Compressing"
    ELSE IF img.error # Null THEN "Errored"
    ELSE IF img.compressedSrc # Null THEN "Ready"
    ELSE "Loading"

\* the records the last handleFileProcessing call added
NewRecords == SelectSeq(images, LAMBDA img : img.id >= lastOp.firstId)

FilesOf(imgs) == [j \in 1..Len(imgs) |-> imgs[j].file]

\* the image files among the first i - 1 files of the last call
ImageFilesBefore(i) == SelectSeq(SubSeq(lastOp.files, 1, i - 1), IsImageType)

AsyncOps ==
    {"reader.onloadstart", "reader.onload", "reader.onerror",
     "img.onload", "img.onload/noctx", "img.onerror", "timeout"}

\* C1: in every reachable state the sum of originalSize over the records of the
\* batch is at most the budget of MAX_TOTAL_SIZE_MB (51200 KB).
C1_TotalWithinBudget == SumOriginal(images) <= Budget

\* a call has just filled the batch exactly to the budget and turned a file away
C1_Witness ==
    /\ lastOp.op = "ingest"
    /\ \E i \in 1..Len(lastOp.outcomes) : lastOp.outcomes[i] = "BatchBudgetExceeded"
    /\ SumOriginal(images) = Budget
    /\ Len(images) = 2

\* C2: right after a handleFileProcessing call in which a file was rejected for
\* the budget, the records the call added are exactly the image files that came
\* before the rejected file, in order (so none that came after it), and they
\* were added behind the records that were already there.
C2_FailFastOnBudget ==
    lastOp.op = "ingest" =>
        \A i \in 1..Len(lastOp.outcomes) :
            lastOp.outcomes[i] = "BatchBudgetExceeded" =>
                /\ FilesOf(NewRecords) = ImageFilesBefore(i)
                /\ SumOriginal(images) = lastOp.base + SumOriginal(NewRecords)
                /\ Len(images) >= Len(NewRecords)
                /\ SubSeq(images, Len(images) - Len(NewRecords) + 1, Len(images)) = NewRecords

\* a call of two files on a batch that holds a record: the first is rejected
\* for the budget, the second is an image small enough to fit
C2_Witness ==
    /\ lastOp.op = "ingest"
    /\ Len(lastOp.files) = 2
    /\ lastOp.outcomes = <<"BatchBudgetExceeded">>
    /\ IsImageType(lastOp.files[2])
    /\ SumOriginal(images) + ToFixed2KB(lastOp.files[2].size) <= Budget
    /\ Len(images) = 1

\* C3 (as claimed): a file is rejected for the budget only if the records
\* already in the batch, the files accepted earlier in the call and the file
\* itself together exceed the budget.
C3_RejectedOnlyIfOverBudget ==
    lastOp.op = "ingest" =>
        \A i \in 1..Len(lastOp.outcomes) :
            lastOp.outcomes[i] = "BatchBudgetExceeded" =>
                lastOp.base + SumOriginal(NewRecords) + ToFixed2KB(lastOp.files[i].size) > Budget

\* C4 (as claimed): every file of a call whose type is not an image type is
\* reported as UnsupportedFileType, creates no record, and the loop goes on to
\* the file after it.
C4_NonImageReported ==
    lastOp.op = "ingest" =>
        \A i \in 1..Len(lastOp.files) :
            ~IsImageType(lastOp.files[i]) =>
                /\ i <= Len(lastOp.outcomes)
                /\ lastOp.outcomes[i] = "UnsupportedFileType"
                /\ \A j \in 1..Len(images) : images[j].file # lastOp.files[i]
                /\ i < Len(lastOp.files) => Len(lastOp.outcomes) > i

\* C5 (as claimed): every file of a call has an outcome, either one new record
\* or a rejection with its reason.
C5_EveryFileHasOutcome ==
    lastOp.op = "ingest" =>
        /\ Len(lastOp.outcomes) = Len(lastOp.files)
        /\ \A i \in 1..Len(lastOp.outcomes) :
              lastOp.outcomes[i] \in {"accepted", "UnsupportedFileType", "BatchBudgetExceeded"}
        /\ Len(NewRecords) =
              Cardinality({i \in 1..Len(lastOp.outcomes) : lastOp.outcomes[i] = "accepted"})

\* C6: allCompressed is true exactly when the batch is non-empty and every
\* record is Ready or Errored; it is false when a record is Loading or
\* Compressing and false for the empty batch.
C6_AllDone ==
    LET settled == \A i \in 1..Len(images) : Status(images[i]) \in {"Ready", "Errored"}
        busy == \E i \in 1..Len(images) : Status(images[i]) \in {"Loading", "Compressing"}
    IN  /\ globalStats.allCompressed <=> (Len(images) > 0 /\ settled)
        /\ busy => ~globalStats.allCompressed
        /\ images = <<>> => ~globalStats.allCompressed

\* two records, one Ready and one Errored, and allCompressed is true
C6_Witness ==
    /\ Len(images) = 2
    /\ \E i \in 1..2 : Status(images[i]) = "Ready"
    /\ \E i \in 1..2 : Status(images[i]) = "Errored"
    /\ globalStats.allCompressed

\* C7: saved is max(0, originalTotal - compressedTotal) of the sums over the
\* records (printed with one decimal), so it is never negative; ratio is 0 when
\* originalTotal is 0 and is never negative.
C7_SavedClamped ==
    LET originalTotal == SumOriginal(images)
        compressedTotal == SumCompressed(images)
    IN  /\ globalStats.saved = ToFixed1(Max(0, originalTotal - compressedTotal))
        /\ globalStats.saved >= 0
        /\ globalStats.ratio >= 0
        /\ originalTotal = 0 => globalStats.ratio = 0

\* the compressed outputs are larger than the originals
C7_Witness ==
    /\ Len(images) > 0
    /\ SumCompressed(images) > SumOriginal(images)
    /\ globalStats.saved = 0

\* C8: an id that was handed out and is no longer in the batch never comes
\* back, and a FileReader, Image or timer callback for an id that is not in the
\* batch leaves the array as it is.
C8_RemovedStaysRemoved ==
    [][ /\ \A id \in 1..(nextId - 1) : id \notin Ids(images) => id \notin Ids(images')
        /\ (lastOp'.op \in AsyncOps /\ ~lastOp'.hit) => images' = images ]_vars

\* an encode has just completed for a record that was removed while a record
\* added before it is still in the batch
C8_Witness ==
    /\ lastOp.op = "img.onload"
    /\ ~lastOp.hit
    /\ \E i \in 1..Len(images) : images[i].id < lastOp.id

\* C9: handleRemoveImage(id) deletes exactly the record with that id and keeps
\* the other records, their order, quality and everything else; with no such
\* record nothing changes; the totals afterwards are those before minus the
\* removed record's.
C9_RemoveFrame ==
    [][ lastOp'.op = "remove" =>
          /\ quality' = quality
          /\ pending' = pending
          /\ isProcessingAll' = isProcessingAll
          /\ nextId' = nextId
          /\ IF lastOp'.id \in Ids(images)
             THEN \E i \in 1..Len(images) :
                    /\ images[i].id = lastOp'.id
                    /\ images' = [j \in 1..(Len(images) - 1) |->
                                    IF j < i THEN images[j] ELSE images[j + 1]]
                    /\ globalStatsOf(images').originalTotal =
                          ToFixed1(SumOriginal(images) - images[i].originalSize)
                    /\ globalStatsOf(images').compressedTotal =
                          ToFixed1(SumCompressed(images) - images[i].compressedSize)
             ELSE images' = images ]_vars

\* the first of two records has just been removed and the second is still there
C9_Witness ==
    /\ lastOp.op = "remove"
    /\ lastOp.hit
    /\ Len(images) = 1
    /\ images[1].id > lastOp.id

\* C10: reset empties the batch, and an empty batch stays empty until the next
\* handleFileProcessing call, whatever callbacks run in between.
C10_ResetStaysEmpty ==
    [][ /\ lastOp'.op = "reset" => images' = <<>>
        /\ (images = <<>> /\ lastOp'.op # "ingest") => images' = <<>> ]_vars

\* reset has just run with a file read and an encode still to complete
C10_Witness ==
    /\ lastOp.op = "reset"
    /\ images = <<>>
    /\ \E t \in Tasks : t.kind = "reader"
    /\ \E t \in Tasks : t.kind = "image"

FailureOps == {"reader.onerror", "img.onerror", "img.onload/noctx"}

EncodeOps == {"img.onload", "img.onload/noctx", "img.onerror"}

\* C11: a record that has a compressed result keeps one for as long as it is
\* in the batch, and a failed read, decode or encode leaves compressedSrc and
\* compressedSize of every record as they were.
C11_CompressedResultKept ==
    [][ \A i \in 1..Len(images), j \in 1..Len(images') :
          images[i].id = images'[j].id =>
            /\ images[i].compressedSrc # Null => images'[j].compressedSrc # Null
            /\ lastOp'.op \in FailureOps =>
                  /\ images'[j].compressedSrc = images[i].compressedSrc
                  /\ images'[j].compressedSize = images[i].compressedSize ]_vars

\* an encode has just failed for a record that holds an earlier result
C11_Witness ==
    /\ lastOp.op = "img.onload/noctx"
    /\ \E i \in 1..Len(images) :
          /\ images[i].id = lastOp.id
          /\ images[i].compressedSrc # Null
          /\ images[i].compressedSize > 0
          /\ images[i].error # Null

\* C12 (as claimed): compressedSize is 0 exactly when compressedSrc is null.
C12_SizeZeroIffNoResult ==
    \A i \in 1..Len(images) :
        images[i].compressedSize = 0 <=> images[i].compressedSrc = Null

\* C19 (as claimed): when the source of a record is not a picture (corrupt
\* data, or width or height 0), the completion of an encode makes the record
\* Errored with an error message and stores no compressed result.
C19_UndecodableEndsErrored ==
    [][ lastOp'.op \in EncodeOps =>
          \A i \in 1..Len(images) :
             (images[i].id = lastOp'.id
                 /\ images[i].originalSrc.picture \in {"corrupt", "zerodim"}) =>
                /\ Status(images'[i]) = "Errored"
                /\ images'[i].error # Null
                /\ images'[i].compressedSrc = images[i].compressedSrc
                /\ images'[i].compressedSize = images[i].compressedSize ]_vars

StatusSteps ==
    { <<"Loading", "Compressing">>, <<"Compressing", "Ready">>,
      <<"Compressing", "Errored">>, <<"Ready", "Compressing">>,
      <<"Errored", "Compressing">> }

\* C13 (as claimed): a record is created Loading, and every change of its
\* status is one of Loading->Compressing, Compressing->Ready,
\* Compressing->Errored, Ready->Compressing, Errored->Compressing.
C13_StatusSteps ==
    [][ /\ \A j \in 1..Len(images') :
              images'[j].id \notin Ids(images) => Status(images'[j]) = "Loading"
        /\ \A i \in 1..Len(images), j \in 1..Len(images') :
              (images[i].id = images'[j].id
                  /\ Status(images[i]) # Status(images'[j])) =>
                 <<Status(images[i]), Status(images'[j])>> \in StatusSteps ]_vars

\* C14 (as claimed): after a successful encode for a record of the batch the
\* record is Ready with a compressed result and no error message, and a
\* record has an error message only while it is Errored.
C14_SuccessEndsReady ==
    [][ /\ (lastOp'.op = "img.onload" /\ lastOp'.hit) =>
              \A j \in 1..Len(images') :
                 images'[j].id = lastOp'.id =>
                    /\ Status(images'[j]) = "Ready"
                    /\ images'[j].error = Null
                    /\ images'[j].compressedSrc # Null
        /\ \A j \in 1..Len(images') :
              images'[j].error # Null => Status(images'[j]) = "Errored" ]_vars

\* the string has no base64 body after its comma, or the body is not base64
\* (a ',' is not a base64 character)
Malformed(dataurl) ==
    \/ ~dataurl.comma
    \/ dataurl.b64 = 0 /\ ~dataurl.more
    \/ ~dataurl.valid
    \/ dataurl.more

\* C20 (as claimed): getFileSizeFromDataURL returns 0 for every malformed
\* payload, and for a well-formed one the size in KB, to two decimals, of
\* the bytes the base64 body decodes to.
C20_SizeOfDecodedBytes ==
    lastOp.op = "return" =>
        IF Malformed(lastOp.dataurl)
        THEN lastOp.size = 0
        ELSE lastOp.size = ToFixed2KB((lastOp.dataurl.b64 \div 4) * 3 - lastOp.dataurl.pad)

\* C18 (as claimed): the archive has one entry per record that has a
\* compressed result and none for the others; the entry of a record is named
\* <file name without extension>_Q<quality>.jpg and holds that record's
\* compressed bytes.
C18_OneEntryPerResult ==
    lastOp.op = "download" =>
        LET with == { i \in 1..Len(images) : images[i].compressedSrc # Null }
        IN  /\ Cardinality(DOMAIN lastOp.zip) = Cardinality(with)
            /\ \A i \in with :
                  LET fileName == EntryName(images[i].file.name, quality)
                  IN  /\ fileName \in DOMAIN lastOp.zip
                      /\ lastOp.zip[fileName] = EntryData(images[i].compressedSrc)

\* C15: handleQualityChange(q) sets quality to q; it starts an encode at q
\* for the first record when that record has its source, and every other
\* record that has its source is, unless it is removed, later set
\* Compressing with an encode at q started for it; a record without its
\* source is left as it was by the call.
C15_QualityChangeReencodes ==
    /\ [][ \A q \in Qualities : handleQualityChange(q) =>
             /\ quality' = q
             /\ Len(images') = Len(images)
             /\ \A i \in 1..Len(images) :
                   LET img == images[i]
                       encode == Task("image", "", img.id, img.originalSrc, q)
                       timer == Task("timeout", "", img.id, img.originalSrc, q)
                   IN  IF ~Truthy(img.originalSrc) THEN images'[i] = img
                       ELSE IF i = 1
                       THEN /\ Status(images'[i]) = "Compressing"
                            /\ CopiesIn(encode, pending') = CopiesIn(encode, pending) + 1
                       ELSE CopiesIn(timer, pending') = CopiesIn(timer, pending) + 1 ]_vars
    /\ \A id \in DeferredIds, q \in Qualities :
          (\E t \in Tasks : t.kind = "timeout" /\ t.id = id /\ t.q = q) ~>
             \/ id \notin Ids(images)
             \/ /\ lastOp.op = "timeout" /\ lastOp.id = id
                /\ \E t \in Tasks : t.kind = "image" /\ t.id = id /\ t.q = q
                /\ \E i \in 1..Len(images) :
                      images[i].id = id /\ Status(images[i]) = "Compressing"

\* the deferred call for a record that is not the first has just run, at a
\* quality other than the one the record was first encoded at
C15_Witness ==
    /\ lastOp.op = "timeout" /\ lastOp.hit
    /\ Len(images) = 2 /\ images[2].id = lastOp.id
    /\ images[2].isCompressing
    /\ images[2].compressedSrc # Null /\ images[2].compressedSrc.q # quality
    /\ Task("image", "", images[2].id, images[2].originalSrc, quality) \in Tasks

(***************************************************************************)
(* What a record can end as when the callbacks that are pending for it run *)
(* in any order and nothing else happens to it.  A configuration is the    *)
(* record (as an array of one) with the bag of its pending callbacks.      *)
(***************************************************************************)
TasksOf(pend, id) ==
    [t \in { u \in BagToSet(pend) : u.id = id } |-> pend[t]]

\* the configurations one callback of c leads to
Completions(c) ==
    UNION { LET rest == c.tasks (-) SetToBag({t})
                encode == SetToBag({Task("image", "", t.id, t.src, t.q)})
            IN  IF t.kind = "reader" /\ t.phase = "start"
                THEN { [img |-> SetLoadStart(c.img, t.id),
                        tasks |-> rest (+) SetToBag({[t EXCEPT !.phase = "loading"]})] }
                ELSE IF t.kind = "reader"
                THEN { [img |-> SetCompressingStart(SetOriginalSrc(c.img, t.id, t.src), t.id),
                        tasks |-> rest (+) encode],
                       [img |-> SetReadError(c.img, t.id), tasks |-> rest] }
                ELSE IF t.kind = "timeout"
                THEN { [img |-> SetCompressingStart(c.img, t.id), tasks |-> rest (+) encode] }
                ELSE IF Decodes(t.src)
                THEN LET compressedDataURL == ToDataURL(t.src.picture, t.q)
                     IN  { [img |-> SetCompressed(c.img, t.id, compressedDataURL,
                                                  getFileSizeFromDataURL(compressedDataURL)),
                            tasks |-> rest],
                           [img |-> SetCanvasError(c.img, t.id), tasks |-> rest] }
                ELSE { [img |-> SetLoadFailed(c.img, t.id), tasks |-> rest] }
            : t \in BagToSet(c.tasks) }

\* a callback leads to at most two more: 3 rounds per pending callback
Settled(img, tasks) ==
    LET rounds == 3 * BagCardinality(tasks)
        F[n \in 0..rounds] ==
            IF n = 0 THEN { [img |-> <<img>>, tasks |-> tasks] }
            ELSE UNION { IF BagCardinality(c.tasks) = 0 THEN {c} ELSE Completions(c)
                         : c \in F[n - 1] }
    IN  { c.img[1] : c \in F[rounds] }

\* the records the record with this id can end as
FinalRecords(imgs, pend, id) ==
    UNION { Settled(imgs[i], TasksOf(pend, id)) : i \in { k \in 1..Len(imgs) : imgs[k].id = id } }

FinalOutputs(imgs, pend, id) ==
    { <<r.compressedSrc, r.compressedSize>> : r \in FinalRecords(imgs, pend, id) }

\* a step that is no quality change, removal or reset leaves every record
\* of the batch with no end it did not have before the step
SettledIsSound ==
    lastOp'.op \notin {"setQuality", "remove", "reset"} =>
        \A i \in 1..Len(images) :
            /\ FinalRecords(images', pending', images[i].id)
                  \subseteq FinalRecords(images, pending, images[i].id)
            /\ FinalRecords(images', pending', images[i].id) # {}

\* handleQualityChange(q) left the record to end Ready or Errored, and when
\* Ready with the result of an encode at q
EndsEncodedAt(id, q) ==
    \A r \in FinalRecords(images', pending', id) :
        /\ Status(r) \in {"Ready", "Errored"}
        /\ Status(r) = "Ready" =>
              /\ r.compressedSrc = ToDataURL(r.originalSrc.picture, q)
              /\ r.compressedSize = getFileSizeFromDataURL(r.compressedSrc)

EncodeInFlight(id) == \E t \in Tasks : t.kind = "image" /\ t.id = id

TimerPending(id) == \E t \in Tasks : t.kind = "timeout" /\ t.id = id

C17_SameQualityTwice ==
    [][ /\ (lastOp.op = "setQuality" /\ handleQualityChange(quality)) =>
              \A i \in 1..Len(images) :
                 FinalOutputs(images', pending', images[i].id)
                    = FinalOutputs(images, pending, images[i].id)
        /\ SettledIsSound ]_vars

\* the quality was set twice in a row to the same value: two encodes of the
\* first record at that quality are in flight
C17_Witness ==
    /\ lastOp.op = "setQuality"
    /\ Len(images) >= 1
    /\ images[1].compressedSrc # Null
    /\ images[1].compressedSrc.q # quality
    /\ CopiesIn(Task("image", "", images[1].id, images[1].originalSrc, quality), pending) = 2

\* C21: an encode keeps the quality it was called with: no step changes the
\* quality of an encode in flight, and the result a successful encode stores
\* is the one for that quality, whatever `quality` is when it completes.
C21_EncodeKeepsItsQuality ==
    [][ /\ \A t \in Tasks :
              (t.kind = "image" /\ ~(lastOp'.op \in EncodeOps /\ lastOp'.id = t.id)) =>
                 CopiesIn(t, pending') >= CopiesIn(t, pending)
        /\ (lastOp'.op = "img.onload" /\ lastOp'.hit) =>
              \E t \in Tasks :
                 /\ t.kind = "image" /\ t.id = lastOp'.id
                 /\ pending' = pending (-) SetToBag({t})
                 /\ \A j \in 1..Len(images') :
                       images'[j].id = t.id =>
                          /\ images'[j].compressedSrc = ToDataURL(t.src.picture, t.q)
                          /\ images'[j].compressedSize
                                = getFileSizeFromDataURL(ToDataURL(t.src.picture, t.q)) ]_vars

\* an encode of the first record has completed with the result for a quality
\* that is no longer the current one: the quality was changed while it was in
\* flight, and the encode that change started is still in flight
C21_Witness ==
    /\ lastOp.op = "img.onload" /\ lastOp.hit /\ lastOp.id = 1
    /\ Len(images) >= 1 /\ images[1].id = 1
    /\ images[1].compressedSrc # Null
    /\ images[1].compressedSrc.q # quality
    /\ images[1].compressedSize > 0
    /\ Task("image", "", 1, images[1].originalSrc, quality) \in Tasks

\* C22: when an encode completes with success for a record that another
\* successful encode, overlapping it, left Ready, compressedSrc and
\* compressedSize become those of the encode that completes now, whatever
\* the result the record had and whatever `quality` is.
C22_LastCompletionWins ==
    [][ \A i \in 1..Len(images) :
          (/\ lastOp'.op = "img.onload" /\ lastOp'.id = images[i].id
           /\ Status(images[i]) = "Ready") =>
             \E t \in Tasks :
                /\ t.kind = "image" /\ t.id = images[i].id
                /\ pending' = pending (-) SetToBag({t})
                /\ images'[i].compressedSrc = ToDataURL(t.src.picture, t.q)
                /\ images'[i].compressedSize
                      = getFileSizeFromDataURL(images'[i].compressedSrc)
                /\ Status(images'[i]) = "Ready" ]_vars

\* two encodes of a record overlapped and both completed with success; the
\* one that completed last was for a quality that is not the current one,
\* and the record holds its result
C22_Witness ==
    /\ lastOp.op = "img.onload" /\ lastOp.hit /\ ~lastOp.busy
    /\ \E i \in 1..Len(images) :
          /\ images[i].id = lastOp.id
          /\ Status(images[i]) = "Ready"
          /\ images[i].compressedSrc.q # quality
          /\ images[i].compressedSize > 0
          /\ BagCardinality(TasksOf(pending, images[i].id)) = 0

CompletionOps ==
    {"reader.onload", "reader.onerror", "img.onload", "img.onload/noctx", "img.onerror"}

\* C23: the completion of a read, a decode or an encode for one record,
\* success or failure, leaves the array as long as it was, every other
\* record as it was, and the callbacks pending for the other records as they
\* were.
C23_CompletionFrame ==
    [][ lastOp'.op \in CompletionOps =>
          /\ Len(images') = Len(images)
          /\ \A i \in 1..Len(images) :
                images[i].id # lastOp'.id =>
                   /\ images'[i] = images[i]
                   /\ TasksOf(pending', images[i].id) = TasksOf(pending, images[i].id) ]_vars

\* a decode has failed for one record of two while the other is Compressing
\* with an encode in flight
C23_Witness ==
    /\ lastOp.op = "img.onerror" /\ lastOp.hit
    /\ Len(images) = 2
    /\ \E i, k \in 1..2 :
          /\ images[i].id = lastOp.id /\ Status(images[i]) = "Errored"
          /\ images[k].id # lastOp.id /\ Status(images[k]) = "Compressing"
          /\ EncodeInFlight(images[k].id)

IdsDistinct(imgs) ==
    \A i, j \in 1..Len(imgs) : imgs[i].id = imgs[j].id => i = j

\* the files of the last call that were accepted, in the order of the call
AcceptedFiles ==
    LET A[k \in 0..Len(lastOp.outcomes)] ==
            IF k = 0 THEN <<>>
            ELSE IF lastOp.outcomes[k] = "accepted" THEN Append(A[k - 1], lastOp.files[k])
            ELSE A[k - 1]
    IN  A[Len(lastOp.outcomes)]

\* C24: the ids of the records are pairwise distinct; a record that stays in
\* the batch keeps its id, file and originalSize and its place relative to
\* the other records that stay; new records come after the existing ones, in
\* the order of the files of the call.
C24_IdentityAndOrder ==
    [][ /\ IdsDistinct(images) /\ IdsDistinct(images')
        /\ \A i \in 1..Len(images), j \in 1..Len(images') :
              images[i].id = images'[j].id =>
                 /\ images'[j].file = images[i].file
                 /\ images'[j].originalSize = images[i].originalSize
                 /\ \A k \in 1..Len(images), l \in 1..Len(images') :
                       (images[k].id = images'[l].id /\ i < k) => j < l
        /\ \A j, l \in 1..Len(images') :
              (images'[j].id \in Ids(images) /\ images'[l].id \notin Ids(images)) => j < l
        /\ LET new == SelectSeq(images', LAMBDA img : img.id \notin Ids(images))
           IN  Len(new) > 0 =>
                  /\ lastOp'.op = "ingest"
                  /\ FilesOf(new) = AcceptedFiles' ]_vars

\* a call has appended a record for its file after a record that was in the
\* batch already and has been read and encoded since it was added
C24_Witness ==
    /\ lastOp.op = "ingest"
    /\ Len(images) = 2
    /\ images[1].id < lastOp.firstId /\ images[2].id >= lastOp.firstId
    /\ images[1].compressedSrc # Null
    /\ images[2].file = lastOp.files[Len(lastOp.files)]
    /\ images[1].file # images[2].file

\* C25 (as claimed): whenever allCompressed is true, no encode of a record
\* of the batch is in flight and no deferred recompression of a record of
\* the batch is pending.
C25_AllDoneMeansNothingPending ==
    globalStats.allCompressed =>
        \A i \in 1..Len(images) :
            ~EncodeInFlight(images[i].id) /\ ~TimerPending(images[i].id)

\* C26 (as claimed): in every state with no read, encode or deferred
\* recompression pending, each record that has a compressed result holds the
\* result of encoding its source at the current quality.
C26_QuiescentAtCurrentQuality ==
    BagCardinality(pending) = 0 =>
        \A i \in 1..Len(images) :
            images[i].compressedSrc # Null =>
                /\ images[i].compressedSrc = ToDataURL(images[i].originalSrc.picture, quality)
                /\ images[i].compressedSize = getFileSizeFromDataURL(images[i].compressedSrc)

\* C27 (as claimed): in a built archive no two records that have a
\* compressed result share an entry name, and the archive has as many
\* entries as there are such records.
C27_EntryNamesDistinct ==
    lastOp.op = "download" =>
        LET with == { i \in 1..Len(images) : images[i].compressedSrc # Null }
        IN  /\ \A i, j \in with :
                  EntryName(images[i].file.name, quality)
                     = EntryName(images[j].file.name, quality) => i = j
            /\ Cardinality(DOMAIN lastOp.zip) = Cardinality(with)

\* a record that is Loading or Compressing has a callback pending
BusyHasCallback(imgs, pend) ==
    \A i \in 1..Len(imgs) :
        Status(imgs[i]) \in {"Loading", "Compressing"} =>
            BagCardinality(TasksOf(pend, imgs[i].id)) > 0

\* every record, unless it is removed, gets to Ready or Errored
EveryRecordSettles ==
    \A id \in 1..MaxIds :
        (id \in Ids(images)) ~>
            \/ id \notin Ids(images)
            \/ \E i \in 1..Len(images) :
                  images[i].id = id /\ Status(images[i]) \in {"Ready", "Errored"}

NoMoreInput == lastOp'.op \notin {"ingest", "setQuality"}

\* C28 (as claimed): when reads, image loads and timers all end, every
\* record that is not removed gets to Ready or Errored, and once no
\* handleFileProcessing and no handleQualityChange follows, allCompressed
\* becomes true and stays true.
C28_BatchGetsDone ==
    /\ EveryRecordSettles
    /\ <>[][NoMoreInput]_vars => <>[] globalStats.allCompressed

\* C28 (amended): the same, for a batch that does not end empty: once no
\* handleFileProcessing and no handleQualityChange follows, from some state
\* on the batch is empty or allCompressed is true; and no record is Loading
\* or Compressing without a callback pending for it.
C28_NonEmptyBatchGetsDone ==
    /\ [][BusyHasCallback(images', pending')]_vars
    /\ EveryRecordSettles
    /\ <>[][NoMoreInput]_vars => <>[] (Len(images) = 0 \/ globalStats.allCompressed)

\* two records have been read and encoded, one with success and one with a
\* failure; nothing is pending and allCompressed is true
C28_Witness ==
    /\ Len(images) = 2
    /\ BagCardinality(pending) = 0
    /\ globalStats.allCompressed
    /\ \E i, k \in 1..2 : Status(images[i]) = "Ready" /\ Status(images[k]) = "Errored"
    /\ lastOp.op \in EncodeOps

\* C29 (as claimed): in the single-image tool, whenever no read and no
\* encode is pending, isCompressing is false and the compressed result that
\* is shown is the compression of the loaded original at the current
\* quality; and isCompressing is true while an encode is in flight.
C29_PageShowsLatestRequest ==
    /\ BagCardinality(page.calls) = 0 =>
          /\ ~page.isCompressing
          /\ page.compressedSrc # Null =>
                /\ page.imageSrc # Null
                /\ page.compressedSrc = ToDataURL(page.imageSrc.picture, page.quality)
    /\ (\E t \in BagToSet(page.calls) : t.kind = "image") => page.isCompressing

====
